---- MODULE Spec2Model ----
(***************************************************************************)
(* Model of the InvestiFi crypto dashboard: the Gateway (the /api/crypto   *)
(* route handlers) and the client-side state machines:                     *)
(*   - useCryptoData  (the data poller: fetch, refresh interval,           *)
(*                     countdown interval, teardown)                       *)
(*   - useNotification (the single-slot notification with auto-hide)       *)
(*   - usePurchaseForm (validation, submission, default-asset auto-fill)   *)
(*   - Home's sorting  (sortCryptoData, handleSortClick, the sorted memo)  *)
(* Each component has a specification of its own; a component that a       *)
(* specification does not exercise keeps its state.                        *)
(*                                                                         *)
(* React semantics the model relies on (React 19, see src/README.md):      *)
(*   - state updates issued in one synchronous run are batched into one    *)
(*     commit, so each handler below is one atomic step;                   *)
(*   - an effect is cleaned up and re-run in the commit that changes one   *)
(*     of its dependencies, and is left alone otherwise;                   *)
(*   - a state update on an unmounted component is dropped.                *)
(* Time is counted in milliseconds and advances in steps of one countdown  *)
(* period; a timer that is due fires before time advances further.         *)
(***************************************************************************)
EXTENDS Integers, Sequences, FiniteSets, TLC

VARIABLES
    \* useCryptoData
    cryptoData,         \* CryptoAsset[]      (useState, part_002:265)
    loading,            \* boolean            (useState, part_002:266)
    error,              \* string | null      (useState, part_002:267)
    countdown,          \* number             (useState, part_002:268)
    refreshInterval,    \* <<>> or <<ms to next firing>>  (part_002:308)
    countdownInterval,  \* <<>> or <<ms to next firing>>  (part_002:320)
    inflight,           \* Gateway calls dispatched and not yet settled, oldest first
    phase,              \* "rendered" (before effects ran), "mounted", "unmounted"
    \* useNotification
    notification,       \* NotificationState  (useState, part_002:187)
    timeouts,           \* pending auto-hide setTimeouts, ms to firing, oldest first
    \* usePurchaseForm
    formData,           \* PurchaseFormData  (useState, part_002:38); amount is the
                        \* text as a sequence of characters, selectedAsset a string
    formErrors,         \* FormErrors        (useState, part_002:42): a function from
                        \* the keys present ("amount", "asset") to their messages
    purchaseData,       \* what the latest operation of the form logged to the
                        \* console: <<>> or <<the purchase record>>
    \* Home (page.tsx)
    sortBy,             \* SortOption | null  (useState, part_004:26)
    sortDirection,      \* SortDirection      (useState, part_004:27)
    sortedCryptoData,   \* CryptoAsset[]      (useMemo, part_004:106): the list rendered
    \* the Gateway (GET /api/crypto), one invocation at a time
    route,              \* the handler invoked: "" (none yet), "part_003", "route.ts"
    method,             \* "" (none yet), "GET", "OPTIONS"
    apiKey,             \* process.env.COINMARKETCAP_API_KEY as the invocation read
                        \* it ("" when it is not set)
    pc,                 \* "idle", "fetching" (await fetch), "reading" (await
                        \* response.text() / response.json()), "returned"
    upstream,           \* <<>> or <<what the provider answered>>
    gatewayResponse,    \* <<>> or <<the NextResponse returned>>
    outbound,           \* outbound requests issued by this invocation
    \* history (observation only, never read by an action's guard or effect)
    last,               \* the operation that produced this state, and what held before it
    applied,            \* some Gateway result has been applied to the state
    lastOk,             \* <<>> or <<data of the latest call that settled successfully
                        \* while mounted>>
    overtaking,         \* how many calls still pending were dispatched before that
                        \* latest successful call
    lastShow            \* <<>> or <<ms since the latest showNotification>>;
                        \* <<>> again once hideNotification was called

pollerVars == <<cryptoData, loading, error, countdown, refreshInterval,
                countdownInterval, inflight, phase, applied, lastOk,
                overtaking>>
notifVars == <<notification, timeouts, lastShow>>
formVars == <<formData, formErrors, purchaseData>>
sortVars == <<sortBy, sortDirection, sortedCryptoData>>
gatewayVars == <<route, method, apiKey, pc, upstream, gatewayResponse, outbound>>
vars == <<cryptoData, loading, error, countdown, refreshInterval,
          countdownInterval, inflight, phase, notification, timeouts,
          formData, formErrors, purchaseData, sortBy, sortDirection,
          sortedCryptoData,
          route, method, apiKey, pc, upstream, gatewayResponse, outbound,
          last, applied, lastOk, overtaking, lastShow>>

----------------------------------------------------------------------------
(* Program constants *)

REFRESH_INTERVAL == 10000
COUNTDOWN_RESET == 10
INITIAL_COUNTDOWN == 10
COUNTDOWN_TICK_MS == 1000
AUTO_HIDE_MS == 5000

(* Bounds of the model *)

\* at most this many Gateway calls pending at once
MaxPending == 2
\* at most this many auto-hide timeouts pending at once
MaxTimeouts == 2

\* one step of the clock
Step == COUNTDOWN_TICK_MS

----------------------------------------------------------------------------
(* Data *)

Asset(id, name, symbol, price) ==
    [id |-> id, name |-> name, symbol |-> symbol, price |-> price]

BTC == Asset(1, "Bitcoin", "BTC", 50000)
ETH == Asset(1027, "Ethereum", "ETH", 2500)
SOL == Asset(5426, "Solana", "SOL", 100)

\* the asset lists the Gateway may return
Snapshots == { <<>>, <<BTC, ETH>>, <<ETH, SOL>> }

\* error === null
NoError == <<>>

\* What `await fetch("/api/crypto")` and the reads of its body can produce.
\*   thrown : fetch() itself rejected (network failure)
\*   ok     : response.ok
\*   status, text : response.status and response.text() of a non-OK response
\*   shape  : what response.json() yields: "list" (data is an array),
\*            "missing" (no data field), "notlist" (data is not an array),
\*            "badjson" (json() throws); "unread" when json() is not reached
\*   data   : result.data when it is an array
Response(thrown, ok, status, text, shape, data) ==
    [thrown |-> thrown, ok |-> ok, status |-> status, text |-> text,
     shape |-> shape, data |-> data]

GatewayErrorBody == "{error:Failed to fetch cryptocurrency data,details:CoinMarketCap API error: 401 - bad key}"

OkResponses == { Response(FALSE, TRUE, "200", "", "list", s) : s \in Snapshots }
FailResponses ==
    { Response(TRUE, FALSE, "", "", "unread", <<>>),
      Response(FALSE, FALSE, "500", GatewayErrorBody, "unread", <<>>),
      Response(FALSE, TRUE, "200", "", "badjson", <<>>),
      Response(FALSE, TRUE, "200", "", "missing", <<>>),
      Response(FALSE, TRUE, "200", "", "notlist", <<>>) }
Responses == OkResponses \cup FailResponses
NoResponse == Response(FALSE, FALSE, "", "", "unread", <<>>)

\* the try block of fetchCryptoData reaches setCryptoData
Succeeds(resp) ==
    /\ ~resp.thrown
    /\ resp.ok
    /\ resp.shape = "list"

\* err.message of the error the try block throws (the browser's message for a
\* rejected fetch and for a body that is not JSON are non-empty strings)
ErrorMessage(resp) ==
    IF resp.thrown THEN <<"Failed to fetch">>
    ELSE IF ~resp.ok THEN <<"Failed to fetch crypto data:", resp.status, resp.text>>
    ELSE IF resp.shape = "badjson" THEN <<"Unexpected token < in JSON at position 0">>
    ELSE <<"Invalid API response format">>

\* Home's error box: <p>Error: {error}</p>, rendered when error is not null
ErrorBox(err) == IF err = NoError THEN <<>> ELSE <<"Error:">> \o err

----------------------------------------------------------------------------
(* Timers *)

Due(timer) == timer # <<>> /\ timer[1] = 0
Elapse(timer) == [i \in 1..Len(timer) |-> timer[i] - Step]
RemoveAt(s, i) == [j \in 1..(Len(s) - 1) |-> IF j < i THEN s[j] ELSE s[j + 1]]

\* Mutant: the effect has no dependency list, so every commit re-runs it
CountdownEffectEveryCommit(timer, l0, e0, l1, e1) ==
    IF l1 \/ e1 # NoError THEN <<>> ELSE <<COUNTDOWN_TICK_MS>>

\* Mutant: the effect's early return tests loading alone
CountdownEffectIgnoresError(timer, l0, e0, l1, e1) ==
    IF l0 = l1 /\ e0 = e1 THEN timer
    ELSE IF l1 THEN <<>>
    ELSE <<COUNTDOWN_TICK_MS>>

\* The countdown effect, deps [loading, error]: in the commit that changes
\* loading or error the old interval is cleared and, unless loading or an
\* error is set, a new one is started; any other commit leaves it alone.
CountdownEffect(timer, l0, e0, l1, e1) ==
    IF l0 = l1 /\ e0 = e1 THEN timer
    ELSE IF l1 \/ e1 # NoError THEN <<>>
    ELSE <<COUNTDOWN_TICK_MS>>

\* An updater that counts down to 0 before it resets
NextCountdownThroughZero(prev) == IF prev <= 0 THEN COUNTDOWN_RESET ELSE prev - 1

\* setCountdown's updater
NextCountdown(prev) == IF prev <= 1 THEN COUNTDOWN_RESET ELSE prev - 1

----------------------------------------------------------------------------
(* History *)

\* op: the operation; resp: the Gateway result it applied (NoResponse if none);
\* overtaken: the call that settled had been dispatched before a call that
\* settled successfully earlier; the rest describes the state the operation
\* started from.
Event(op, resp, overtaken) ==
    [op |-> op, resp |-> resp, overtaken |-> overtaken,
     wasLoading |-> loading,
     hadError |-> error # NoError,
     cdOn |-> countdownInterval # <<>>,
     dataWas |-> IF cryptoData = <<>> THEN "empty"
                 ELSE IF cryptoData = resp.data THEN "same" ELSE "other"]

----------------------------------------------------------------------------
(* Initial state: the first render of Home, before its effects have run *)

InitPoller ==
    /\ cryptoData = <<>>
    /\ loading = TRUE
    /\ error = NoError
    /\ countdown = INITIAL_COUNTDOWN
    /\ refreshInterval = <<>>
    /\ countdownInterval = <<>>
    /\ inflight = <<>>
    /\ phase = "rendered"
    /\ applied = FALSE
    /\ lastOk = <<>>
    /\ overtaking = 0

InitNotification ==
    /\ notification = [message |-> "", type |-> "info", show |-> FALSE]
    /\ timeouts = <<>>
    /\ lastShow = <<>>

\* usePurchaseForm's useState initial values
InitForm ==
    /\ formData = [amount |-> <<>>, selectedAsset |-> ""]
    /\ formErrors = <<>>
    /\ purchaseData = <<>>

\* Home's useState initial values: no sort key chosen ("none" is null)
InitSort ==
    /\ sortBy = "none"
    /\ sortDirection = "asc"
    /\ sortedCryptoData = <<>>

\* no request has reached the Gateway
InitGateway ==
    /\ route = ""
    /\ method = ""
    /\ apiKey = ""
    /\ pc = "idle"
    /\ upstream = <<>>
    /\ gatewayResponse = <<>>
    /\ outbound = 0

Init ==
    /\ InitPoller
    /\ InitNotification
    /\ InitGateway
    /\ InitForm
    /\ InitSort
    /\ last = [op |-> "init", resp |-> NoResponse, overtaken |-> FALSE,
               wasLoading |-> TRUE, hadError |-> FALSE, cdOn |-> FALSE,
               dataWas |-> "empty"]

----------------------------------------------------------------------------
(* Home: sorting *)

\* two more listings, one tied with ETH on price, one tied with SOL on name,
\* symbol and price
WETH == Asset(2396, "WETH", "WETH", 2500)
SOLB == Asset(16116, "Solana", "SOL", 100)

SortOptions == {"name", "symbol", "price"}
SortDirections == {"asc", "desc"}

\* the names and symbols of the model in the order localeCompare puts them
Collation == <<"Bitcoin", "BTC", "ETH", "Ethereum", "SOL", "Solana", "WETH">>

\* x.localeCompare(y): negative, zero or positive
LocaleCompare(x, y) ==
    (CHOOSE i \in 1..Len(Collation) : Collation[i] = x)
        - (CHOOSE i \in 1..Len(Collation) : Collation[i] = y)

\* Mutant: the comparator does not look at the direction
CompareAscending(a, b, sortOption, direction) ==
    CASE sortOption = "name" -> LocaleCompare(a.name, b.name)
      [] sortOption = "symbol" -> LocaleCompare(a.symbol, b.symbol)
      [] sortOption = "price" -> a.price - b.price
      [] OTHER -> 0

\* the comparator sortCryptoData passes to sort
Compare(a, b, sortOption, direction) ==
    LET result == CASE sortOption = "name" -> LocaleCompare(a.name, b.name)
                    [] sortOption = "symbol" -> LocaleCompare(a.symbol, b.symbol)
                    [] sortOption = "price" -> a.price - b.price
                    [] OTHER -> 0
    IN  IF direction = "desc" THEN -result ELSE result

\* Mutant: an element goes in front of the elements it ties with
InsertAtBeforeTies(sorted, x, sortOption, direction) ==
    Cardinality({i \in 1..Len(sorted) : Compare(sorted[i], x, sortOption, direction) < 0})

\* Array.prototype.sort is stable: an element taken later from the input
\* goes behind every element already placed that does not compare greater
InsertAt(sorted, x, sortOption, direction) ==
    Cardinality({i \in 1..Len(sorted) : Compare(sorted[i], x, sortOption, direction) <= 0})

\* [...data].sort(comparator): a new list, the input is not touched
RECURSIVE StableSort(_, _, _)
StableSort(data, sortOption, direction) ==
    IF data = <<>> THEN <<>>
    ELSE LET sorted == StableSort(SubSeq(data, 1, Len(data) - 1), sortOption, direction)
             x == data[Len(data)]
             k == InsertAt(sorted, x, sortOption, direction)
         IN  SubSeq(sorted, 1, k) \o <<x>> \o SubSeq(sorted, k + 1, Len(sorted))

\* sortCryptoData(data, sortOption, direction); "none" is null
SortCryptoData(data, sortOption, direction) ==
    IF sortOption = "none" THEN data ELSE StableSort(data, sortOption, direction)

\* Mutant: with no key chosen the memo is the snapshot as it came
SortedCryptoDataAsGiven(data, by, direction) == SortCryptoData(data, by, direction)

\* the sortedCryptoData memo
SortedCryptoData(data, by, direction) ==
    IF by # "none" THEN SortCryptoData(data, by, direction)
    ELSE StableSort(data, "name", "asc")

----------------------------------------------------------------------------
(* useCryptoData *)

\* Mutant: the four values live outside the component (a module-level store)
CommitAlways(ph, old, new) == new

\* A state update reaches the component only while it is mounted: the four
\* values are component state (useState), which React drops updates to after
\* the component has unmounted.
Commit(ph, old, new) == IF ph = "mounted" \/ ph = "rendered" THEN new ELSE old

\* Mutant: a refresh does not touch the loading flag
LoadingOnDispatchKept(l) == l

\* fetchCryptoData, try block before the await: setLoading(true)
LoadingOnDispatch(l) == TRUE

\* Mutant: a failed refresh drops the snapshot
SnapshotAfterClearedOnFailure(data, resp) == IF Succeeds(resp) THEN resp.data ELSE <<>>

\* Mutant: a successful refresh appends to the snapshot
SnapshotAfterMerged(data, resp) == IF Succeeds(resp) THEN data \o resp.data ELSE data

\* Mutant: a result is ignored once a snapshot is held
SnapshotAfterFirstWins(data, resp) ==
    IF Succeeds(resp) /\ data = <<>> THEN resp.data ELSE data

\* fetchCryptoData, after the awaits: setCryptoData(result.data) on success
SnapshotAfter(data, resp) == IF Succeeds(resp) THEN resp.data ELSE data

\* fetchCryptoData: setError(null) on success, setError(err.message) in catch
ErrorAfter(err, resp) == IF Succeeds(resp) THEN NoError ELSE ErrorMessage(resp)

\* fetchCryptoData: setCountdown(UI_CONFIG.INITIAL_COUNTDOWN) on success
CountdownAfter(cd, resp) == IF Succeeds(resp) THEN INITIAL_COUNTDOWN ELSE cd

\* fetchCryptoData, finally: setLoading(false)
LoadingAfter(l) == FALSE

\* cleanup of the refresh effect: clearInterval(refreshInterval)
RefreshCleanup(timer) == <<>>

\* Mutant: the refresh effect uses setTimeout, which fires once
RefreshRearmOnce(timer) == <<>>

\* setInterval(..., API_CONFIG.REFRESH_INTERVAL): after each firing the
\* interval is due again one period later, whatever the poller's state
RefreshRearm(timer) == <<REFRESH_INTERVAL>>

\* Mutant: the countdown effect returns no cleanup
CountdownCleanupMissing(timer) == timer

\* cleanup of the countdown effect: clearInterval(countdownInterval)
CountdownCleanup(timer) == <<>>

\* The synchronous part of fetchCryptoData(): setLoading(true), then the
\* request is dispatched; the commit re-runs the countdown effect.
FetchCryptoData ==
    LET l1 == Commit(phase, loading, LoadingOnDispatch(loading)) IN
    /\ loading' = l1
    /\ inflight' = Append(inflight, "pending")
    /\ countdownInterval' =
           IF phase = "unmounted" THEN countdownInterval
           ELSE CountdownEffect(countdownInterval, loading, error, l1, error)
    /\ UNCHANGED <<gatewayVars, cryptoData, error, countdown, applied, lastOk, overtaking>>

\* First commit: the refresh effect calls fetchCryptoData() and starts the
\* refresh interval; the countdown effect returns early (loading is true).
Mount ==
    /\ phase = "rendered"
    /\ phase' = "mounted"
    /\ refreshInterval' = <<REFRESH_INTERVAL>>
    /\ FetchCryptoData
    /\ last' = Event("mount", NoResponse, FALSE)
    /\ UNCHANGED <<gatewayVars, notifVars, formVars, sortVars>>

\* The refresh interval's callback
RefreshFire ==
    /\ Due(refreshInterval)
    /\ Len(inflight) < MaxPending
    /\ refreshInterval' = RefreshRearm(refreshInterval)
    /\ FetchCryptoData
    /\ last' = Event("interval", NoResponse, FALSE)
    /\ UNCHANGED <<gatewayVars, phase, notifVars, formVars, sortVars>>

\* refetch(), called by the consumer of the hook
Refetch ==
    /\ phase = "mounted"
    /\ Len(inflight) < MaxPending
    /\ FetchCryptoData
    /\ last' = Event("manual", NoResponse, FALSE)
    /\ UNCHANGED <<gatewayVars, phase, refreshInterval, notifVars, formVars, sortVars>>

\* The i-th pending Gateway call settles with resp: the rest of
\* fetchCryptoData runs (try after the awaits, or catch; then finally).
ResolveFetch(i, resp) ==
    LET d1 == Commit(phase, cryptoData, SnapshotAfter(cryptoData, resp))
        e1 == Commit(phase, error, ErrorAfter(error, resp))
        c1 == Commit(phase, countdown, CountdownAfter(countdown, resp))
        l1 == Commit(phase, loading, LoadingAfter(loading))
        older == IF i <= overtaking THEN overtaking - 1 ELSE overtaking
    IN
    /\ i \in 1..Len(inflight)
    /\ resp \in Responses
    /\ cryptoData' = d1
    /\ error' = e1
    /\ countdown' = c1
    /\ loading' = l1
    /\ inflight' = RemoveAt(inflight, i)
    /\ countdownInterval' =
           IF phase = "unmounted" THEN countdownInterval
           ELSE CountdownEffect(countdownInterval, loading, error, l1, e1)
    /\ applied' = (applied \/ phase = "mounted")
    /\ lastOk' = IF Succeeds(resp) /\ phase = "mounted" THEN <<resp.data>> ELSE lastOk
    /\ overtaking' = IF Succeeds(resp) /\ phase = "mounted" THEN i - 1 ELSE older
    /\ sortedCryptoData' = SortedCryptoData(d1, sortBy, sortDirection)
    /\ last' = Event("resolve", resp, i <= overtaking)
    /\ UNCHANGED <<gatewayVars, phase, refreshInterval, notifVars, formVars, sortBy, sortDirection>>

\* The countdown interval's callback
CountdownTick ==
    /\ Due(countdownInterval)
    /\ countdown' = Commit(phase, countdown, NextCountdown(countdown))
    /\ countdownInterval' = <<COUNTDOWN_TICK_MS>>
    /\ last' = Event("tick", NoResponse, FALSE)
    /\ UNCHANGED <<gatewayVars, cryptoData, loading, error, refreshInterval, inflight, phase,
                   applied, lastOk, overtaking, notifVars, formVars, sortVars>>

\* Home is torn down: both effects' cleanups run
Unmount ==
    /\ phase = "mounted"
    /\ phase' = "unmounted"
    /\ refreshInterval' = RefreshCleanup(refreshInterval)
    /\ countdownInterval' = CountdownCleanup(countdownInterval)
    /\ last' = Event("unmount", NoResponse, FALSE)
    /\ UNCHANGED <<gatewayVars, cryptoData, loading, error, countdown, inflight, applied,
                   lastOk, overtaking, notifVars, formVars, sortVars>>

\* One step of the clock; a due timer fires first
Advance ==
    /\ ~Due(refreshInterval)
    /\ ~Due(countdownInterval)
    /\ \A k \in 1..Len(timeouts) : timeouts[k] > 0
    /\ refreshInterval # <<>> \/ countdownInterval # <<>> \/ timeouts # <<>>
    /\ refreshInterval' = Elapse(refreshInterval)
    /\ countdownInterval' = Elapse(countdownInterval)
    /\ timeouts' = Elapse(timeouts)
    /\ lastShow' = IF lastShow = <<>> \/ lastShow[1] >= AUTO_HIDE_MS THEN lastShow
                   ELSE <<lastShow[1] + Step>>
    /\ last' = Event("advance", NoResponse, FALSE)
    /\ UNCHANGED <<gatewayVars, cryptoData, loading, error, countdown, inflight, phase,
                   applied, lastOk, overtaking, notification, formVars, sortVars>>

NextPoller ==
    \/ Mount
    \/ RefreshFire
    \/ Refetch
    \/ \E i \in 1..MaxPending, resp \in Responses : ResolveFetch(i, resp)
    \/ CountdownTick
    \/ Unmount
    \/ Advance

Spec == Init /\ [][NextPoller]_vars

\* The poller with no user action (no refetch), under the scheduling the
\* event loop gives: time passes, a due timer's callback runs, and a pending
\* Gateway call is eventually answered successfully.
NextUnattended ==
    \/ Mount
    \/ RefreshFire
    \/ \E i \in 1..MaxPending, resp \in Responses : ResolveFetch(i, resp)
    \/ CountdownTick
    \/ Unmount
    \/ Advance

ResolveSuccessfully == \E i \in 1..MaxPending, resp \in OkResponses : ResolveFetch(i, resp)

SpecUnattended ==
    /\ Init
    /\ [][NextUnattended]_vars
    /\ WF_vars(Mount)
    /\ WF_vars(Advance)
    /\ WF_vars(RefreshFire)
    /\ WF_vars(CountdownTick)
    /\ SF_vars(ResolveSuccessfully)

----------------------------------------------------------------------------
(* useNotification *)

NotificationMessages == {"A", "B"}
NotificationTypes == {"success", "error", "info"}

\* A showNotification that schedules nothing
TimeoutsOnShowNone(pending) == pending

\* showNotification: the timeout it schedules (setTimeout(..., 5000)); no
\* earlier timeout is cleared
TimeoutsOnShow(pending) == Append(pending, AUTO_HIDE_MS)

\* The call just made: showNotification's arguments
ShowEvent(message, type) == [op |-> "show", message |-> message, type |-> type]

\* showNotification(message, type)
ShowNotification(message, type) ==
    /\ Len(timeouts) < MaxTimeouts
    /\ notification' = [message |-> message, type |-> type, show |-> TRUE]
    /\ timeouts' = TimeoutsOnShow(timeouts)
    /\ lastShow' = <<0>>
    /\ last' = ShowEvent(message, type)
    /\ UNCHANGED <<gatewayVars, pollerVars, formVars, sortVars>>

\* Hiding that also forgets what was shown
HiddenAndCleared(prev) == [message |-> "", type |-> "info", show |-> FALSE]

\* prev => ({ ...prev, show: false })
Hidden(prev) == [prev EXCEPT !.show = FALSE]

\* hideNotification()
HideNotification ==
    /\ notification' = Hidden(notification)
    /\ lastShow' = <<>>
    /\ last' = Event("hide", NoResponse, FALSE)
    /\ UNCHANGED <<gatewayVars, pollerVars, timeouts, formVars, sortVars>>

\* The oldest pending timeout's callback: setNotification(prev => ({...prev, show: false}))
AutoHide ==
    /\ timeouts # <<>>
    /\ timeouts[1] = 0
    /\ notification' = Hidden(notification)
    /\ timeouts' = Tail(timeouts)
    /\ last' = Event("autohide", NoResponse, FALSE)
    /\ UNCHANGED <<gatewayVars, pollerVars, lastShow, formVars, sortVars>>

NextNotification ==
    \/ \E m \in NotificationMessages, t \in NotificationTypes : ShowNotification(m, t)
    \/ HideNotification
    \/ AutoHide
    \/ Advance

SpecNotification == Init /\ [][NextNotification]_vars

\* The same component with the browser's timer guarantees: time passes, and a
\* timeout that is due runs its callback
SpecNotificationTimed ==
    /\ Init
    /\ [][NextNotification]_vars
    /\ WF_vars(Advance)
    /\ WF_vars(AutoHide)

----------------------------------------------------------------------------
(* Text and numbers (what parseFloat, trim, isNaN and the comparisons do) *)

\* A text is a sequence of one-character strings. A number is num/den with
\* den >= 0: 1/0 is Infinity, -1/0 is -Infinity and 0/0 is NaN.
Whitespace == {" ", "\t", "\n"}
DigitChars == <<"0", "1", "2", "3", "4", "5", "6", "7", "8", "9">>
Digits == {DigitChars[i] : i \in 1..Len(DigitChars)}
InfinityText == <<"I", "n", "f", "i", "n", "i", "t", "y">>

Number(num, den) == [num |-> num, den |-> den]
NaN == Number(0, 0)

\* how many leading characters of text are in the set chars
Span(text, chars) ==
    CHOOSE n \in 0..Len(text) :
        /\ \A i \in 1..n : text[i] \in chars
        /\ n = Len(text) \/ text[n + 1] \notin chars

\* how many trailing characters of text are in the set chars
SpanBack(text, chars) ==
    CHOOSE n \in 0..Len(text) :
        /\ \A i \in (Len(text) - n + 1)..Len(text) : text[i] \in chars
        /\ n = Len(text) \/ text[Len(text) - n] \notin chars

Drop(text, n) == SubSeq(text, n + 1, Len(text))

StartsWith(text, prefix) ==
    /\ Len(text) >= Len(prefix)
    /\ SubSeq(text, 1, Len(prefix)) = prefix

\* String.prototype.trim
Trim(text) ==
    IF Span(text, Whitespace) = Len(text) THEN <<>>
    ELSE SubSeq(text, Span(text, Whitespace) + 1, Len(text) - SpanBack(text, Whitespace))

DigitValue(c) == (CHOOSE i \in 1..Len(DigitChars) : DigitChars[i] = c) - 1

RECURSIVE DigitsValue(_)
DigitsValue(ds) ==
    IF ds = <<>> THEN 0
    ELSE 10 * DigitsValue(SubSeq(ds, 1, Len(ds) - 1)) + DigitValue(ds[Len(ds)])

RECURSIVE Pow10(_)
Pow10(k) == IF k = 0 THEN 1 ELSE 10 * Pow10(k - 1)

\* parseFloat reads the longest prefix that is a decimal literal (sign,
\* digits, fraction, exponent) or Infinity, after skipping leading
\* whitespace; NaN when there is none. What follows the prefix is ignored.
LeadingDigits(text) == SubSeq(text, 1, Span(text, Digits))

\* mantissa / 10^fractionDigits * 10^exponent
Scaled(mantissa, fractionDigits, exponent) ==
    IF fractionDigits >= exponent
    THEN Number(mantissa, Pow10(fractionDigits - exponent))
    ELSE Number(mantissa * Pow10(exponent - fractionDigits), 1)

\* the digits of an exponent part, with their sign; 0 when there are none
ExponentDigits(text) ==
    IF text # <<>> /\ text[1] = "-" THEN -DigitsValue(LeadingDigits(Tail(text)))
    ELSE IF text # <<>> /\ text[1] = "+" THEN DigitsValue(LeadingDigits(Tail(text)))
    ELSE DigitsValue(LeadingDigits(text))

\* the exponent that text starts with; 0 when it starts with none
Exponent(text) ==
    IF text # <<>> /\ text[1] \in {"e", "E"} THEN ExponentDigits(Tail(text)) ELSE 0

\* integer digits, fraction digits and the text behind them
ParseMantissa(intDigits, fracDigits, rest) ==
    IF intDigits \o fracDigits = <<>> THEN NaN
    ELSE Scaled(DigitsValue(intDigits \o fracDigits), Len(fracDigits), Exponent(rest))

\* integer digits and the text behind a decimal point
ParseFraction(intDigits, text) ==
    ParseMantissa(intDigits, LeadingDigits(text), Drop(text, Span(text, Digits)))

\* integer digits and the text behind them
ParseAfterInteger(intDigits, text) ==
    IF text # <<>> /\ text[1] = "." THEN ParseFraction(intDigits, Tail(text))
    ELSE ParseMantissa(intDigits, <<>>, text)

ParseUnsigned(text) ==
    IF StartsWith(text, InfinityText) THEN Number(1, 0)
    ELSE ParseAfterInteger(LeadingDigits(text), Drop(text, Span(text, Digits)))

Negated(x) == Number(-x.num, x.den)

ParseSigned(text) ==
    IF text # <<>> /\ text[1] = "-" THEN Negated(ParseUnsigned(Tail(text)))
    ELSE IF text # <<>> /\ text[1] = "+" THEN ParseUnsigned(Tail(text))
    ELSE ParseUnsigned(text)

ParseFloat(text) == ParseSigned(Drop(text, Span(text, Whitespace)))

\* isNaN(x)
IsNaN(x) == x.num = 0 /\ x.den = 0
\* x <= n and x > n for an integer n (both false for NaN)
AtMost(x, n) == ~IsNaN(x) /\ x.num <= n * x.den
Exceeds(x, n) == ~IsNaN(x) /\ x.num > n * x.den
\* x / n for a positive integer n, not rounded
DividedBy(x, n) == Number(x.num, x.den * n)
\* x and y are the same number
SameNumber(x, y) == IsNaN(x) = IsNaN(y) /\ x.num * y.den = y.num * x.den

----------------------------------------------------------------------------
(* usePurchaseForm *)

MAX_AMOUNT == 5000
AMOUNT_REQUIRED == "USD amount is required"
INVALID_NUMBER == "Please enter a valid number"
AMOUNT_TOO_LOW == "Amount must be greater than 0"
AMOUNT_TOO_HIGH == "Amount must not exceed $5,000"
SELECT_ASSET == "Please select an asset to purchase"
CRYPTO_SYMBOL == "BTC"
FIX_ERRORS == "Please fix the form errors before submitting"
ASSET_NOT_FOUND == "Selected asset not found"
ORDER_SUBMITTED == "Purchase order submitted successfully! Check console for details."

\* the asset lists the form may be handed (BTC first, last, absent; empty)
ListedSnapshots == Snapshots \cup { <<ETH, BTC>>, <<SOL, ETH, BTC>> }

\* the amount texts validation is applied to
AmountTexts ==
    { <<>>, <<" ">>, <<" ", "\t">>,
      <<"a", "b", "c">>, <<"1", "2", "a">>, <<".">>,
      <<"0">>, <<"-", "5">>, <<"0", ".", "0", "0", "5">>, <<"0", ".", "0", "1">>,
      <<"1", "0", "0">>, <<" ", "7">>, <<"5", "0", "0", "0">>,
      <<"5", "0", "0", "0", ".", "0", "1">>, <<"1", "e", "4">> }

\* the amount texts typed into the form between submissions
TypedAmountTexts ==
    { <<>>, <<"a", "b", "c">>, <<"0", ".", "0", "0", "5">>, <<"1", "0", "0">>,
      <<"5", "0", "0", "0", ".", "0", "1">> }

\* the asset ids updateField is called with ("" is the placeholder option)
AssetOptions == {""} \cup { ToString(a.id) : a \in {BTC, ETH, SOL} }

\* Mutant: a zero amount is let through (amount < 0)
AmountErrorZeroAllowed(text) ==
    IF text = <<>> \/ Trim(text) = <<>> THEN <<AMOUNT_REQUIRED>>
    ELSE IF IsNaN(ParseFloat(text)) THEN <<INVALID_NUMBER>>
    ELSE IF ParseFloat(text).num < 0 THEN <<AMOUNT_TOO_LOW>>
    ELSE IF Exceeds(ParseFloat(text), MAX_AMOUNT) THEN <<AMOUNT_TOO_HIGH>>
    ELSE <<>>

\* validateForm, the amount chain: <<>> (no error) or <<message>>
AmountError(text) ==
    IF text = <<>> \/ Trim(text) = <<>> THEN <<AMOUNT_REQUIRED>>
    ELSE IF IsNaN(ParseFloat(text)) THEN <<INVALID_NUMBER>>
    ELSE IF AtMost(ParseFloat(text), 0) THEN <<AMOUNT_TOO_LOW>>
    ELSE IF Exceeds(ParseFloat(text), MAX_AMOUNT) THEN <<AMOUNT_TOO_HIGH>>
    ELSE <<>>

\* validateForm, the asset check
AssetError(selectedAsset) == IF selectedAsset = "" THEN <<SELECT_ASSET>> ELSE <<>>

\* the errors object holding the keys that were assigned
ErrorsObject(amountError, assetError) ==
    [k \in (IF amountError # <<>> THEN {"amount"} ELSE {})
           \cup (IF assetError # <<>> THEN {"asset"} ELSE {})
       |-> IF k = "amount" THEN amountError[1] ELSE assetError[1]]

\* Mutant: the asset check is one more else-if of the amount chain
ValidationErrorsOneChain(fd) ==
    ErrorsObject(AmountError(fd.amount),
                 IF AmountError(fd.amount) # <<>> THEN <<>> ELSE AssetError(fd.selectedAsset))

\* validateForm: the errors it passes to setFormErrors
ValidationErrors(fd) ==
    ErrorsObject(AmountError(fd.amount), AssetError(fd.selectedAsset))

\* validateForm's return value: Object.keys(errors).length === 0
IsValid(errors) == DOMAIN errors = {}

\* cryptoData.find(crypto => crypto.id.toString() === selectedAsset):
\* <<>> (undefined) or <<the first asset with that id>>
FindAsset(data, selectedAsset) ==
    LET hits == {i \in 1..Len(data) : ToString(data[i].id) = selectedAsset}
    IN  IF hits = {} THEN <<>>
        ELSE <<data[CHOOSE i \in hits : \A j \in hits : i <= j]>>

\* Mutant: the default is always the first asset
GetDefaultAssetFirst(data) ==
    IF Len(data) = 0 THEN "" ELSE ToString(data[1].id)

\* useCryptoData.getDefaultAsset over the snapshot its closure holds
GetDefaultAsset(data) ==
    LET hits == {i \in 1..Len(data) : data[i].symbol = CRYPTO_SYMBOL}
    IN  IF Len(data) = 0 THEN ""
        ELSE IF hits # {} THEN ToString(data[CHOOSE i \in hits : \A j \in hits : i <= j].id)
        ELSE ToString(data[1].id)

\* Mutant: getDefaultAsset is memoised with no dependencies
DefaultAssetClosureStale(before, after) == before

\* useCallback(..., [cryptoData]): after a commit that replaced the snapshot,
\* getDefaultAsset reads the snapshot of that commit
DefaultAssetClosure(before, after) == after

\* Mutant: the effect does not test the current selection
AutoFillAlways(data, defaultAssetId, fd) ==
    IF Len(data) > 0 /\ defaultAssetId # ""
    THEN [fd EXCEPT !.selectedAsset = defaultAssetId]
    ELSE fd

\* The auto-fill effect (deps: cryptoData, getDefaultAsset, selectedAsset),
\* run after the commit that left the form data at fd
AutoFill(data, defaultAssetId, fd) ==
    IF Len(data) > 0 /\ fd.selectedAsset = "" /\ defaultAssetId # ""
    THEN [fd EXCEPT !.selectedAsset = defaultAssetId]
    ELSE fd

\* Mutant: the quantity is the amount, not divided by the price
EstimatedQuantityUndivided(amount, price) == amount

\* amount / asset.quote.USD.price
EstimatedQuantity(amount, price) == DividedBy(amount, price)

\* the record handleSubmit logs (its timestamp is left out)
PurchaseRecord(amount, asset) ==
    [usdAmount |-> amount,
     selectedAsset |-> asset,
     estimatedQuantity |-> EstimatedQuantity(amount, asset.price)]

\* Mutant: a failed asset lookup resets the form as a success does
FormAfterLookupFailureCleared(fd) == [amount |-> <<>>, selectedAsset |-> ""]

\* handleSubmit returns after onError when the asset is not found: no setFormData
FormAfterLookupFailure(fd) == fd

\* Mutant: handleSubmit goes on after a failed validation
ProceedsIgnoringValidation(errors) == TRUE

\* handleSubmit goes past `if (!validateForm())`
Proceeds(errors) == IsValid(errors)

\* updateField clears formErrors[field] when it is set
ClearError(errors, field) == [k \in DOMAIN errors \ {field} |-> errors[k]]

FormEvent(op) == [op |-> op]

\* onSuccess / onError as Home wires them: showSuccess / showError, that is
\* showNotification(message, type)
Post(message, type) ==
    /\ Len(timeouts) < MaxTimeouts
    /\ notification' = [message |-> message, type |-> type, show |-> TRUE]
    /\ timeouts' = TimeoutsOnShow(timeouts)
    /\ lastShow' = <<0>>

\* updateField(field, value), then the auto-fill effect
UpdateField(field, value) ==
    /\ formData' = AutoFill(cryptoData, GetDefaultAsset(cryptoData),
                            [formData EXCEPT ![field] = value])
    /\ formErrors' = ClearError(formErrors, field)
    /\ purchaseData' = <<>>
    /\ last' = FormEvent("update")
    /\ UNCHANGED <<gatewayVars, pollerVars, notifVars, sortVars>>

\* validateForm()
ValidateForm ==
    /\ formErrors' = ValidationErrors(formData)
    /\ purchaseData' = <<>>
    /\ last' = FormEvent("validate")
    /\ UNCHANGED <<gatewayVars, formData, pollerVars, notifVars, sortVars>>

\* handleSubmit(e), then the auto-fill effect
HandleSubmit ==
    LET errors == ValidationErrors(formData)
        found == FindAsset(cryptoData, formData.selectedAsset)
        amount == ParseFloat(formData.amount)
    IN  /\ IF ~Proceeds(errors)
           THEN /\ Post(FIX_ERRORS, "error")
                /\ formErrors' = errors
                /\ purchaseData' = <<>>
                /\ formData' = formData
           ELSE IF found = <<>>
           THEN /\ Post(ASSET_NOT_FOUND, "error")
                /\ formErrors' = errors
                /\ purchaseData' = <<>>
                /\ formData' = AutoFill(cryptoData, GetDefaultAsset(cryptoData),
                                        FormAfterLookupFailure(formData))
           ELSE /\ Post(ORDER_SUBMITTED, "success")
                /\ formErrors' = <<>>
                /\ purchaseData' = <<PurchaseRecord(amount, found[1])>>
                /\ formData' = AutoFill(cryptoData, GetDefaultAsset(cryptoData),
                                        [amount |-> <<>>, selectedAsset |-> ""])
        /\ last' = FormEvent("submit")
        /\ UNCHANGED <<gatewayVars, pollerVars, sortVars>>

\* useCryptoData hands the form a new snapshot (setCryptoData(result.data)
\* committed), then the auto-fill effect
ReplaceSnapshot(data) ==
    /\ cryptoData' = data
    /\ formData' = AutoFill(data, GetDefaultAsset(DefaultAssetClosure(cryptoData, data)),
                            formData)
    /\ purchaseData' = <<>>
    /\ sortedCryptoData' = SortedCryptoData(data, sortBy, sortDirection)
    /\ last' = FormEvent("snapshot")
    /\ UNCHANGED <<gatewayVars, loading, error, countdown, refreshInterval, countdownInterval,
                   inflight, phase, applied, lastOk, overtaking,
                   formErrors, notifVars, sortBy, sortDirection>>

NextForm ==
    \/ \E text \in TypedAmountTexts : UpdateField("amount", text)
    \/ \E id \in AssetOptions : UpdateField("selectedAsset", id)
    \/ ValidateForm
    \/ HandleSubmit
    \/ \E data \in ListedSnapshots : ReplaceSnapshot(data)
    \/ AutoHide
    \/ Advance

SpecForm == Init /\ [][NextForm]_vars

\* The drafts validation is applied to: any amount text and asset id the form
\* can hold over a snapshot (the auto-fill effect has run)
InitValidator ==
    /\ loading = FALSE
    /\ error = NoError
    /\ countdown = COUNTDOWN_RESET
    /\ refreshInterval = <<>>
    /\ countdownInterval = <<>>
    /\ inflight = <<>>
    /\ phase = "rendered"
    /\ applied = FALSE
    /\ lastOk = <<>>
    /\ overtaking = 0
    /\ InitNotification
    /\ InitGateway
    /\ \E data \in ListedSnapshots, text \in AmountTexts, id \in AssetOptions :
          /\ cryptoData = data
          /\ formData = AutoFill(data, GetDefaultAsset(data),
                                 [amount |-> text, selectedAsset |-> id])
    /\ sortBy = "none"
    /\ sortDirection = "asc"
    /\ sortedCryptoData = SortedCryptoData(cryptoData, sortBy, sortDirection)
    /\ formErrors = <<>>
    /\ purchaseData = <<>>
    /\ last = [op |-> "init"]

NextValidator == ValidateForm

SpecValidator == InitValidator /\ [][NextValidator]_vars

----------------------------------------------------------------------------
(* Home: the sort controls *)

\* handleSortClick(option), then the memo of the render that follows
HandleSortClick(option) ==
    /\ sortBy' = option
    /\ sortDirection' = IF sortBy = option
                        THEN (IF sortDirection = "asc" THEN "desc" ELSE "asc")
                        ELSE "asc"
    /\ sortedCryptoData' = SortedCryptoData(cryptoData, sortBy', sortDirection')
    /\ last' = [op |-> "sort"]
    /\ UNCHANGED <<gatewayVars, pollerVars, notifVars, formVars>>

\* the lists the sorter is applied to: every order of one fixed asset list
\* that has ties on each key
SortedAssets == {ETH, SOL, WETH, SOLB}
SortInputs ==
    { data \in [1..Cardinality(SortedAssets) -> SortedAssets] :
          \A i, j \in DOMAIN data : data[i] = data[j] => i = j }

InitSorter ==
    /\ cryptoData \in SortInputs
    /\ loading = FALSE
    /\ error = NoError
    /\ countdown = COUNTDOWN_RESET
    /\ refreshInterval = <<>>
    /\ countdownInterval = <<>>
    /\ inflight = <<>>
    /\ phase = "rendered"
    /\ applied = FALSE
    /\ lastOk = <<>>
    /\ overtaking = 0
    /\ InitNotification
    /\ InitGateway
    /\ formData = AutoFill(cryptoData, GetDefaultAsset(cryptoData),
                           [amount |-> <<>>, selectedAsset |-> ""])
    /\ formErrors = <<>>
    /\ purchaseData = <<>>
    /\ sortBy = "none"
    /\ sortDirection = "asc"
    /\ sortedCryptoData = SortedCryptoData(cryptoData, sortBy, sortDirection)
    /\ last = [op |-> "init"]

NextSorter ==
    \/ \E option \in SortOptions : HandleSortClick(option)
    \/ \E data \in SortInputs : ReplaceSnapshot(data)

SpecSorter == InitSorter /\ [][NextSorter]_vars

----------------------------------------------------------------------------
(* The Gateway: GET and OPTIONS of /api/crypto. The repository holds two    *)
(* versions of the route: part_003 (API-key check, details, CORS headers)   *)
(* and app/api/crypto/route.ts (neither).                                   *)

MAX_CRYPTO_ASSETS == 10
FETCH_FAILED == "Failed to fetch cryptocurrency data"
KEY_NOT_CONFIGURED == "API key not configured"

\* the longest list the provider answers with
MaxUpstream == 11

Handlers == {"part_003", "route.ts"}
ApiKeys == {"", "cmc-key"}

\* The provider's listings stand for themselves by their ids; two orders of
\* them, neither sorted by id the way the other is
RankedIds(n) == [i \in 1..n |-> i]
JumbledIds(n) == [i \in 1..n |-> (i * 5) % (MaxUpstream + 2)]
ProviderLists ==
    { RankedIds(n) : n \in 0..MaxUpstream } \cup { JumbledIds(n) : n \in 0..MaxUpstream }

\* What the provider can answer to the one outbound request.
\*   thrown : fetch() rejected (network error)
\*   ok, status, text : response.ok, response.status, response.text()
\*   shape  : what response.json() yields: "list" (data.data is an array),
\*            "missing" (an object with no data field), "null" (JSON null),
\*            "notlist" (data.data is an object), "badjson" (json() throws)
\*   data   : data.data when it is an array
\*   info   : data.status, the provider's status block
Upstream(thrown, ok, status, text, shape, data, info) ==
    [thrown |-> thrown, ok |-> ok, status |-> status, text |-> text,
     shape |-> shape, data |-> data, info |-> info]

UpstreamAnswers ==
    { Upstream(TRUE, FALSE, "", "", "unread", <<>>, "") }
    \cup { Upstream(FALSE, FALSE, st[1], st[2], "unread", <<>>, "")
             : st \in { <<"401", "bad key">>, <<"429", "rate limit">>,
                        <<"500", "">> } }
    \cup { Upstream(FALSE, TRUE, "200", "", "list", l, "cmc-ok")
             : l \in ProviderLists }
    \cup { Upstream(FALSE, TRUE, "200", "", sh, <<>>, "cmc-ok")
             : sh \in {"missing", "null", "notlist", "badjson"} }

\* NextResponse.json(body, { status, headers })
NextResponse(status, body, headers) ==
    [status |-> status, body |-> body, headers |-> headers]

CorsHeaders ==
    { <<"Access-Control-Allow-Origin", "*">>,
      <<"Access-Control-Allow-Methods", "GET">>,
      <<"Access-Control-Allow-Headers", "Content-Type">> }

\* Array.prototype.slice(begin, end) dropping one element more
SliceInclusive(list, begin, end) ==
    SubSeq(list, begin + 1, IF end + 1 < Len(list) THEN end + 1 ELSE Len(list))

\* Array.prototype.slice(begin, end), 0 <= begin <= end
Slice(list, begin, end) ==
    SubSeq(list, begin + 1, IF end < Len(list) THEN end ELSE Len(list))

\* data.data?.slice(0, API_CONFIG.MAX_CRYPTO_ASSETS) || []
ResponseData(up) ==
    IF up.shape = "list" THEN Slice(up.data, 0, MAX_CRYPTO_ASSETS) ELSE <<>>

\* the success response of each handler
Success(handler, up) ==
    NextResponse(200, [data |-> ResponseData(up), status |-> up.info],
                 IF handler = "part_003"
                 THEN CorsHeaders
                        \cup { <<"Cache-Control", "s-maxage=60, stale-while-revalidate=300">> }
                 ELSE {})

\* the catch block of each handler; message is error.message
Failure(handler, message) ==
    IF handler = "part_003"
    THEN NextResponse(500, [error |-> FETCH_FAILED, details |-> message],
                      CorsHeaders)
    ELSE NextResponse(500, [error |-> FETCH_FAILED], {})

\* the early return of part_003 when the key is not set
KeyMissing == NextResponse(500, [error |-> KEY_NOT_CONFIGURED], {})

\* if (!apiKey) is part of part_003 only
ChecksApiKey(handler) == handler = "part_003"

\* error.message of what the try block throws once the body was read
BodyErrorMessage(up) ==
    IF ~up.ok THEN <<"CoinMarketCap API error:", up.status, "-", up.text>>
    ELSE IF up.shape = "badjson" THEN <<"Unexpected token < in JSON at position 0">>
    ELSE IF up.shape = "null" THEN <<"Cannot read properties of null (reading 'data')">>
    ELSE <<"data.data?.slice is not a function">>

\* the body that was read makes the try block throw
BodyThrows(up) == ~up.ok \/ up.shape \in {"badjson", "null", "notlist"}

GatewayEvent(op) == [op |-> op]

\* GET is invoked: the key is read and, unless the handler gives up on a
\* missing key, the one outbound request is issued
GET(handler, key) ==
    /\ pc \in {"idle", "returned"}
    /\ route' = handler
    /\ method' = "GET"
    /\ apiKey' = key
    /\ upstream' = <<>>
    /\ IF ChecksApiKey(handler) /\ key = ""
       THEN /\ pc' = "returned"
            /\ gatewayResponse' = <<KeyMissing>>
            /\ outbound' = 0
       ELSE /\ pc' = "fetching"
            /\ gatewayResponse' = <<>>
            /\ outbound' = 1
    /\ last' = GatewayEvent("GET")
    /\ UNCHANGED <<pollerVars, notifVars, formVars, sortVars>>

\* await fetch(...) settles: a rejection goes to the catch block; route.ts
\* throws on a non-OK response without reading its body
FetchSettles(up) ==
    /\ pc = "fetching"
    /\ upstream' = <<up>>
    /\ IF up.thrown
       THEN /\ pc' = "returned"
            /\ gatewayResponse' = <<Failure(route, <<"fetch failed">>)>>
       ELSE IF ~up.ok /\ route = "route.ts"
       THEN /\ pc' = "returned"
            /\ gatewayResponse' =
                 <<Failure(route, <<"CoinMarketCap API error:", up.status>>)>>
       ELSE /\ pc' = "reading"
            /\ gatewayResponse' = <<>>
    /\ last' = GatewayEvent("fetch")
    /\ UNCHANGED <<route, method, apiKey, outbound,
                   pollerVars, notifVars, formVars, sortVars>>

\* await response.text() (non-OK, part_003) or await response.json() settles
BodyRead ==
    /\ pc = "reading"
    /\ pc' = "returned"
    /\ gatewayResponse' =
         <<IF BodyThrows(upstream[1])
           THEN Failure(route, BodyErrorMessage(upstream[1]))
           ELSE Success(route, upstream[1])>>
    /\ last' = GatewayEvent("body")
    /\ UNCHANGED <<route, method, apiKey, upstream, outbound,
                   pollerVars, notifVars, formVars, sortVars>>

\* OPTIONS (part_003): the CORS preflight
OPTIONS ==
    /\ pc \in {"idle", "returned"}
    /\ route' = "part_003"
    /\ method' = "OPTIONS"
    /\ pc' = "returned"
    /\ upstream' = <<>>
    /\ gatewayResponse' = <<NextResponse(200, <<>>, CorsHeaders)>>
    /\ outbound' = 0
    /\ last' = GatewayEvent("OPTIONS")
    /\ UNCHANGED <<apiKey, pollerVars, notifVars, formVars, sortVars>>

NextGateway ==
    \/ \E handler \in Handlers, key \in ApiKeys : GET(handler, key)
    \/ \E up \in UpstreamAnswers : FetchSettles(up)
    \/ BodyRead
    \/ OPTIONS

SpecGateway == Init /\ [][NextGateway]_vars

----------------------------------------------------------------------------
(* Claims *)

\* C1: a notification shown by showNotification stays visible until 5 seconds
\* after the latest showNotification call (unless hideNotification is called):
\* a timeout scheduled by an earlier call does not hide it.
C1_LatestShowVisibleForFullDelay ==
    (lastShow # <<>> /\ lastShow[1] < AUTO_HIDE_MS) => notification.show

IsDispatch(op) == op \in {"mount", "interval", "manual"}
IsRefreshStep(op) == IsDispatch(op) \/ op = "resolve"

\* C2: a failed refresh (non-OK response, thrown fetch, data missing or not a
\* list) leaves cryptoData as it was and makes the error message non-empty.
C2_FailedRefreshKeepsSnapshot ==
    [][(last'.op = "resolve" /\ ~Succeeds(last'.resp) /\ phase = "mounted")
         => (cryptoData' = cryptoData /\ error' # NoError)]_vars

C2_Witness ==
    /\ phase = "mounted"
    /\ last.op = "resolve"
    /\ ~last.resp.thrown /\ ~last.resp.ok
    /\ cryptoData # <<>>
    /\ error # NoError

\* C3: a successful refresh, from any state, makes the snapshot exactly the
\* returned list, clears the error and sets the countdown to 10.
C3_SuccessReplacesSnapshot ==
    [][(last'.op = "resolve" /\ Succeeds(last'.resp) /\ phase = "mounted")
         => /\ cryptoData' = last'.resp.data
            /\ error' = NoError
            /\ countdown' = 10]_vars

C3_Witness ==
    /\ phase = "mounted"
    /\ last.op = "resolve"
    /\ Succeeds(last.resp)
    /\ last.hadError
    /\ last.dataWas = "other"
    /\ last.resp.data # <<>>
    /\ cryptoData = last.resp.data

\* C4: the loading flag and a non-empty error message never hold together.
C4_LoadingAndErrorExclusive == ~(loading /\ error # NoError)

\* C5 (as claimed): once a fetch outcome has been applied the poller never
\* re-enters Loading.
C5_NeverReentersLoading == (applied /\ phase = "mounted") => ~loading

\* C5 (amended): the poller starts in Loading; every dispatch (mount, interval,
\* manual) sets loading again; every applied outcome clears loading, with the
\* error cleared exactly on success.
C5_LoadingWhileRefreshing ==
    /\ [](phase = "rendered" => (loading /\ error = NoError))
    /\ [][/\ (IsDispatch(last'.op) /\ phase' = "mounted") => loading'
          /\ (last'.op = "resolve" /\ phase = "mounted")
               => (~loading' /\ (error' = NoError <=> Succeeds(last'.resp)))]_vars

C5_Witness ==
    /\ phase = "mounted"
    /\ applied
    /\ IsDispatch(last.op)
    /\ ~last.wasLoading
    /\ ~last.hadError
    /\ loading

\* C6: with overlapping Gateway calls that both succeed, the snapshot is the
\* result of the call that settled last, whichever was dispatched first.
C6_LastResolvedWins == lastOk # <<>> => cryptoData = lastOk[1]

C6_Witness ==
    /\ phase = "mounted"
    /\ inflight = <<>>
    /\ last.op = "resolve"
    /\ Succeeds(last.resp)
    /\ last.overtaken
    /\ last.dataWas = "other"
    /\ cryptoData = last.resp.data

\* C7: after teardown neither interval exists or fires: no timer dispatches a
\* Gateway call and no countdown tick runs.
C7_NoTimerAfterTeardown ==
    /\ [](phase = "unmounted" => (refreshInterval = <<>> /\ countdownInterval = <<>>))
    /\ [][phase = "unmounted"
            => /\ last'.op \notin {"interval", "tick"}
               /\ Len(inflight') <= Len(inflight)
               /\ countdown' = countdown]_vars

C7_Witness ==
    /\ phase = "unmounted"
    /\ last.op = "unmount"
    /\ last.cdOn
    /\ refreshInterval = <<>>
    /\ countdownInterval = <<>>

\* C8: a Gateway call that settles after teardown changes none of snapshot,
\* loading, error, countdown.
C8_LateResultIsNoOp ==
    [][(last'.op = "resolve" /\ phase = "unmounted")
         => UNCHANGED <<gatewayVars, cryptoData, loading, error, countdown>>]_vars

C8_Witness ==
    /\ phase = "unmounted"
    /\ last.op = "resolve"
    /\ Succeeds(last.resp)
    /\ last.resp.data # cryptoData
    /\ loading

\* C9 (as claimed): dispatching or completing a refresh never cancels or
\* re-phases a pending countdown tick, and a countdown tick never cancels or
\* delays a refresh.
C9_TimersIndependent ==
    [][/\ (IsRefreshStep(last'.op) /\ countdownInterval # <<>>)
            => countdownInterval' = countdownInterval
       /\ last'.op = "tick"
            => (refreshInterval' = refreshInterval /\ inflight' = inflight)]_vars

\* C9 (amended): a countdown tick never touches the refresh timer or a pending
\* call, and a completion never touches the refresh timer; the countdown
\* interval exists only while loading is false and error is empty: a refresh
\* step that sets loading or an error cancels the pending tick, one that leaves
\* neither set keeps a pending tick as scheduled, or starts a new interval
\* (first tick 1000 ms later) when there was none.
C9_CountdownFollowsLoadingAndError ==
    [][/\ last'.op = "tick"
            => (refreshInterval' = refreshInterval /\ inflight' = inflight)
       /\ last'.op = "resolve" => refreshInterval' = refreshInterval
       /\ (IsRefreshStep(last'.op) /\ phase' = "mounted")
            => countdownInterval' =
                 IF loading' \/ error' # NoError THEN <<>>
                 ELSE IF countdownInterval # <<>> THEN countdownInterval
                 ELSE <<1000>>]_vars

C9_Witness ==
    /\ phase = "mounted"
    /\ IsDispatch(last.op)
    /\ last.cdOn
    /\ countdownInterval = <<>>
    /\ refreshInterval # <<>>

\* C10: the countdown does not change and no tick runs while error is
\* non-empty; a successful refresh starts the countdown interval again, which
\* then ticks every 1000 ms (no second passes over a due tick), each tick
\* stepping the countdown.
C10_CountdownPausedInError ==
    [][/\ (error # NoError /\ error' # NoError) => countdown' = countdown
       /\ error # NoError => last'.op # "tick"
       /\ (last'.op = "resolve" /\ Succeeds(last'.resp) /\ phase = "mounted")
            => (countdownInterval' # <<>> /\ countdownInterval'[1] <= 1000)
       /\ (last'.op = "advance" /\ countdownInterval # <<>>)
            => (countdownInterval[1] > 0 /\ countdownInterval' = <<countdownInterval[1] - 1000>>)
       /\ (last'.op = "tick" /\ phase = "mounted")
            => countdown' = (IF countdown <= 1 THEN 10 ELSE countdown - 1)]_vars

C10_Witness ==
    /\ phase = "mounted"
    /\ last.op = "resolve"
    /\ Succeeds(last.resp)
    /\ last.hadError
    /\ countdownInterval = <<1000>>
    /\ countdown = 10

Ready == ~loading /\ error = NoError

\* C11: until teardown the refresh interval exists and re-invokes the Gateway
\* in every poller state, so with no user action, if Gateway calls eventually
\* succeed, a poller in Error (or Loading) eventually is Ready with the
\* snapshot of the latest successful call.
C11_IntervalRecovers ==
    /\ [](phase = "mounted" => refreshInterval # <<>>)
    /\ [][last'.op = "interval"
            => (Len(inflight') = Len(inflight) + 1 /\ refreshInterval' # <<>>)]_vars
    /\ (phase = "mounted" /\ ~Ready)
           ~> (phase = "unmounted"
               \/ (Ready /\ lastOk # <<>> /\ cryptoData = lastOk[1]))

C11_Witness ==
    /\ phase = "mounted"
    /\ last.op = "resolve"
    /\ Succeeds(last.resp)
    /\ last.hadError
    /\ last.wasLoading
    /\ Ready
    /\ refreshInterval # <<>>
    /\ cryptoData = last.resp.data

\* the drafts and snapshots the form claims speak of
Listed(data, id) == \E i \in 1..Len(data) : ToString(data[i].id) = id
PriceOf(data, id) == (CHOOSE a \in {data[i] : i \in 1..Len(data)} : ToString(a.id) = id).price
PassesValidation(fd) == AmountError(fd.amount) = <<>> /\ fd.selectedAsset # ""
ErrorShown == notification.show /\ notification.type = "error"

\* C12: submitting a draft that passes validation but whose selectedAsset is
\* not an id of the current snapshot leaves amount and selectedAsset as they
\* were, logs no purchase record and shows an error notification.
C12_UnknownAssetKeepsDraft ==
    [][(last'.op = "submit" /\ PassesValidation(formData)
            /\ ~Listed(cryptoData, formData.selectedAsset))
         => /\ formData' = formData
            /\ purchaseData' = <<>>
            /\ ErrorShown']_vars

C12_Witness ==
    /\ last.op = "submit"
    /\ PassesValidation(formData)
    /\ cryptoData # <<>>
    /\ ~Listed(cryptoData, formData.selectedAsset)
    /\ purchaseData = <<>>
    /\ notification.message = ASSET_NOT_FOUND
    /\ ErrorShown

\* C13: for every draft in which validation reports an amount or an asset
\* error, handleSubmit logs no purchase record, clears neither form field,
\* posts no success notification and posts an error notification.
C13_InvalidDraftNotSubmitted ==
    [][(last'.op = "submit" /\ ~PassesValidation(formData))
         => /\ purchaseData' = <<>>
            /\ formData' = formData
            /\ notification'.type # "success"
            /\ ErrorShown'
            /\ formErrors' # <<>>]_vars

C13_Witness ==
    /\ last.op = "submit"
    /\ ~PassesValidation(formData)
    /\ formData.amount # <<>>
    /\ Listed(cryptoData, formData.selectedAsset)
    /\ "amount" \in DOMAIN formErrors
    /\ purchaseData = <<>>
    /\ notification.message = FIX_ERRORS
    /\ ErrorShown

Submitted ==
    /\ last'.op = "submit"
    /\ PassesValidation(formData)
    /\ Listed(cryptoData, formData.selectedAsset)

SubmittedOutcome ==
    /\ formErrors' = <<>>
    /\ notification'.show /\ notification'.type = "success"
    /\ purchaseData' # <<>>
    /\ SameNumber(purchaseData'[1].usdAmount, ParseFloat(formData.amount))
    /\ SameNumber(Number(purchaseData'[1].estimatedQuantity.num
                           * PriceOf(cryptoData, formData.selectedAsset),
                         purchaseData'[1].estimatedQuantity.den),
                  ParseFloat(formData.amount))

\* C14 as stated: a successful submission leaves both form fields empty,
\* clears the validation errors, posts a success notification and logs a
\* record whose estimatedQuantity is amount / price of the resolved asset.
C14_SuccessClearsBothFields ==
    [][Submitted
         => /\ formData'.amount = <<>>
            /\ formData'.selectedAsset = ""
            /\ SubmittedOutcome]_vars

\* C14 as the code has it: a successful submission empties the amount field
\* and resets selectedAsset, which the auto-fill effect sets at once to the
\* default asset of the snapshot; the errors are cleared, a success
\* notification is posted and the logged record's estimatedQuantity is
\* amount / price of the resolved asset in the snapshot at submit time.
C14_SuccessResetsToDefaultAsset ==
    [][Submitted
         => /\ formData'.amount = <<>>
            /\ formData'.selectedAsset # ""
            /\ formData'.selectedAsset = GetDefaultAsset(cryptoData)
            /\ SubmittedOutcome]_vars

C14_Witness ==
    /\ last.op = "submit"
    /\ purchaseData # <<>>
    /\ purchaseData[1].selectedAsset = ETH
    /\ SameNumber(purchaseData[1].estimatedQuantity, Number(4, 100))
    /\ formData.amount = <<>>
    /\ formData.selectedAsset = ToString(BTC.id)
    /\ notification.message = ORDER_SUBMITTED

AmountErrorOf(errors) == IF "amount" \in DOMAIN errors THEN <<errors["amount"]>> ELSE <<>>
AssetErrorOf(errors) == IF "asset" \in DOMAIN errors THEN <<errors["asset"]>> ELSE <<>>
AllWhitespace(text) == \A i \in 1..Len(text) : text[i] \in Whitespace

\* what the amount check has to report for the texts named one by one
\* (0.01, 5000 and a value between 0 and 0.01 among the valid ones)
RequiredTexts == { <<>>, <<" ">>, <<" ", "\t">> }
UnparseableTexts == { <<"a", "b", "c">>, <<".">> }
TooLowTexts == { <<"0">>, <<"-", "5">> }
TooHighTexts == { <<"5", "0", "0", "0", ".", "0", "1">>, <<"1", "e", "4">> }
ValidTexts ==
    { <<"0", ".", "0", "0", "5">>, <<"0", ".", "0", "1">>, <<"1", "0", "0">>,
      <<"5", "0", "0", "0">>, <<" ", "7">>, <<"1", "2", "a">> }

C16_BothFieldsValidated ==
    last.op = "validate" =>
        /\ (AssetErrorOf(formErrors) # <<>>) = (formData.selectedAsset = "")
        /\ AssetErrorOf(formErrors) \in {<<>>, <<SELECT_ASSET>>}
        /\ AmountErrorOf(formErrors) = AmountError(formData.amount)
        /\ IsValid(formErrors)
             = (AmountErrorOf(formErrors) = <<>> /\ AssetErrorOf(formErrors) = <<>>)

C16_Witness ==
    /\ last.op = "validate"
    /\ formData.selectedAsset = ""
    /\ AmountErrorOf(formErrors) = <<INVALID_NUMBER>>
    /\ AssetErrorOf(formErrors) = <<SELECT_ASSET>>
    /\ ~IsValid(formErrors)

\* the default asset, said without reference to how the code finds it
IsDefaultOf(data, id) ==
    IF data = <<>> THEN id = ""
    ELSE IF \E i \in 1..Len(data) : data[i].symbol = "BTC"
    THEN \E i \in 1..Len(data) : data[i].symbol = "BTC" /\ id = ToString(data[i].id)
    ELSE id = ToString(data[1].id)

\* C17: across snapshot refreshes the auto-fill leaves a non-empty
\* selectedAsset as it is (even when the new snapshot lacks that id or has
\* BTC); with a non-empty snapshot and an empty selectedAsset it sets
\* selectedAsset to the default asset.
C17_AutoFillKeepsSelection ==
    [][last'.op = "snapshot"
         => /\ formData.selectedAsset # ""
                 => formData'.selectedAsset = formData.selectedAsset
            /\ (formData.selectedAsset = "" /\ cryptoData' # <<>>)
                 => IsDefaultOf(cryptoData', formData'.selectedAsset)
            /\ formData'.amount = formData.amount]_vars

C17_Witness ==
    /\ last.op = "snapshot"
    /\ formData.selectedAsset = ToString(SOL.id)
    /\ cryptoData = <<ETH, BTC>>

\* C18: getDefaultAsset over the current snapshot is the id of the asset with
\* symbol BTC wherever it is in the list, else the id of the first asset, else
\* the empty string; after a snapshot replacement it answers for the new
\* snapshot, never for the one before.
C18_DefaultAssetOfCurrentSnapshot ==
    /\ [](IsDefaultOf(cryptoData, GetDefaultAsset(cryptoData)))
    /\ [][(last'.op = "snapshot" /\ formData.selectedAsset = "")
            => IsDefaultOf(cryptoData', formData'.selectedAsset)]_vars

C18_Witness ==
    /\ last.op = "snapshot"
    /\ cryptoData = <<SOL, ETH, BTC>>
    /\ GetDefaultAsset(cryptoData) = ToString(BTC.id)
    /\ formData.selectedAsset = ToString(BTC.id)

KeyOf(a, sortOption) ==
    CASE sortOption = "name" -> a.name
      [] sortOption = "symbol" -> a.symbol
      [] sortOption = "price" -> a.price

PositionIn(list, a) == CHOOSE i \in 1..Len(list) : list[i] = a

\* assets of data with equal keys are in sorted in the order they have in data
TiesKeepOrder(data, sorted, sortOption) ==
    \A i, j \in 1..Len(data) :
        (i < j /\ KeyOf(data[i], sortOption) = KeyOf(data[j], sortOption))
            => PositionIn(sorted, data[i]) < PositionIn(sorted, data[j])

SameAssets(data, sorted) ==
    /\ Len(sorted) = Len(data)
    /\ \A a \in SortedAssets :
          Cardinality({i \in 1..Len(data) : data[i] = a})
              = Cardinality({i \in 1..Len(sorted) : sorted[i] = a})

\* C19: the sort is stable in both directions: sorting a list with equal sort
\* keys by that key, ascending or descending, keeps the tied assets in the
\* order they have in the snapshot.
C19_SortStableBothDirections ==
    sortBy # "none" =>
        /\ sortedCryptoData = SortCryptoData(cryptoData, sortBy, sortDirection)
        /\ SameAssets(cryptoData, sortedCryptoData)
        /\ TiesKeepOrder(cryptoData, sortedCryptoData, sortBy)
        /\ \A direction \in SortDirections :
              TiesKeepOrder(cryptoData, SortCryptoData(cryptoData, sortBy, direction), sortBy)

C19_Witness ==
    /\ sortBy = "price"
    /\ sortDirection = "desc"
    /\ cryptoData = <<SOLB, WETH, SOL, ETH>>
    /\ sortedCryptoData = <<WETH, ETH, SOLB, SOL>>

\* C20: for every order of a fixed asset list, sorting by price ascending
\* gives non-decreasing prices, sorting by price descending gives
\* non-increasing prices, and the result holds exactly the input assets.
C20_PriceSortOrdered ==
    sortBy = "price" =>
        /\ SameAssets(cryptoData, sortedCryptoData)
        /\ \A i \in 1..(Len(sortedCryptoData) - 1) :
              IF sortDirection = "asc"
              THEN sortedCryptoData[i].price <= sortedCryptoData[i + 1].price
              ELSE sortedCryptoData[i].price >= sortedCryptoData[i + 1].price

C20_Witness ==
    /\ sortBy = "price"
    /\ sortDirection = "desc"
    /\ cryptoData = <<SOL, ETH, SOLB, WETH>>
    /\ sortedCryptoData[1].price = 2500
    /\ sortedCryptoData[4].price = 100

\* list is in ascending order by name
NameAscending(list) ==
    \A i, j \in 1..Len(list) :
        i < j => LocaleCompare(list[i].name, list[j].name) <= 0

\* C21 as stated: with no sort key chosen the result is the assets in
\* ascending order by name whatever the direction argument, both for
\* sortCryptoData called with a null key and for the list the page renders.
C21_NoKeyIsNameAscending ==
    sortBy = "none" =>
        /\ NameAscending(sortedCryptoData)
        /\ \A direction \in SortDirections :
              NameAscending(SortCryptoData(cryptoData, "none", direction))

\* C21 as the code has it: with no sort key chosen the list the page renders
\* is the snapshot's assets in ascending order by name (ties in snapshot
\* order), while sortCryptoData called with a null key returns its input as
\* it is, in snapshot order, for either direction argument.
C21_NoKeyRenderedByNameFunctionAsGiven ==
    sortBy = "none" =>
        /\ NameAscending(sortedCryptoData)
        /\ SameAssets(cryptoData, sortedCryptoData)
        /\ TiesKeepOrder(cryptoData, sortedCryptoData, "name")
        /\ \A direction \in SortDirections :
              SortCryptoData(cryptoData, "none", direction) = cryptoData

C21_Witness ==
    /\ last.op = "snapshot"
    /\ sortBy = "none"
    /\ cryptoData = <<WETH, SOLB, SOL, ETH>>
    /\ sortedCryptoData = <<ETH, SOLB, SOL, WETH>>
    /\ SortCryptoData(cryptoData, "none", "desc") = cryptoData

\* C26: every showNotification(message, type) makes the slot hold exactly that
\* message and type with show = TRUE; once 5 seconds have passed since the
\* latest call and the due timeouts have run, the notification is hidden; and
\* if from some point on no show call is made, the notification ends up hidden
\* for good.
C26_ShownThenHiddenAfterDelay ==
    /\ [][last'.op = "show"
            => notification' = [message |-> last'.message,
                                type |-> last'.type,
                                show |-> TRUE]]_vars
    /\ []((/\ lastShow # <<>>
           /\ lastShow[1] >= AUTO_HIDE_MS
           /\ \A k \in 1..Len(timeouts) : timeouts[k] > 0)
             => ~notification.show)
    /\ (<>[][last'.op # "show"]_vars => <>[](~notification.show))

C26_Witness ==
    /\ last.op = "autohide"
    /\ lastShow = <<AUTO_HIDE_MS>>
    /\ timeouts = <<>>
    /\ notification = [message |-> "A", type |-> "success", show |-> FALSE]

\* C27: hideNotification and the auto-hide timeout set show to FALSE and leave
\* the message and the type of the slot as they were; applied to a slot that
\* is already hidden they change nothing.
C27_HidingOnlyClearsShow ==
    [][last'.op \in {"hide", "autohide"}
         => /\ notification' = [message |-> notification.message,
                                type |-> notification.type,
                                show |-> FALSE]
            /\ ~notification.show => notification' = notification]_vars

C27_Witness ==
    /\ last.op = "hide"
    /\ timeouts # <<>>
    /\ notification = [message |-> "B", type |-> "error", show |-> FALSE]

\* C28: while the hook is mounted, loading is TRUE whenever at least one call
\* to the Gateway is pending; in particular, of two overlapping refreshes,
\* once the first has resolved and the second is still pending, loading is
\* still TRUE.
C28_LoadingWhilePending ==
    (phase = "mounted" /\ inflight # <<>>) => loading

C30_SelectionNeverEmptyWithSnapshot ==
    /\ [](cryptoData # <<>> => formData.selectedAsset # "")
    /\ [](cryptoData # <<>> =>
            AutoFill(cryptoData, GetDefaultAsset(cryptoData),
                     [formData EXCEPT !.selectedAsset = ""]).selectedAsset
              = GetDefaultAsset(cryptoData))
    /\ [][(last'.op = "submit" /\ purchaseData' # <<>>)
            => (/\ formData'.selectedAsset # ""
                /\ IsDefaultOf(cryptoData, formData'.selectedAsset))]_vars
    /\ [][(last'.op = "update" /\ cryptoData # <<>>)
            => formData'.selectedAsset # ""]_vars
    /\ [][(last'.op = "submit" /\ cryptoData # <<>>)
            => AssetErrorOf(formErrors') = <<>>]_vars

C30_Witness ==
    /\ last.op = "submit"
    /\ cryptoData = <<ETH, SOL>>
    /\ purchaseData # <<>>
    /\ purchaseData[1].selectedAsset = SOL
    /\ formData.selectedAsset = ToString(ETH.id)
    /\ formErrors = <<>>

\* the diagnostic texts of the failed responses: the HTTP status and the
\* body (the Gateway's body holds its details string)
Diagnostics ==
    ({ r.status : r \in FailResponses } \cup { r.text : r \in FailResponses })
      \ {"", "200"}

\* C25: whenever the page shows a failure, the text shown holds neither the
\* Gateway's body with its details string nor the HTTP status of the failed
\* response (the weaker half of the claim, which also wants the text to be a
\* static friendly message).
C25_NoDiagnosticDisplayed ==
    (phase = "mounted" /\ error # NoError) =>
        \A i \in 1..Len(ErrorBox(error)) : ErrorBox(error)[i] \notin Diagnostics

\* C22: when the provider answers 200 with a list, the Gateway's response
\* (either handler) is 200 and its data is the first min(length, 10) entries
\* of the list, in the provider's order.
C22_FirstTenInProviderOrder ==
    (pc = "returned" /\ method = "GET" /\ upstream # <<>>
       /\ ~upstream[1].thrown /\ upstream[1].ok /\ upstream[1].shape = "list")
    => /\ gatewayResponse[1].status = 200
       /\ Len(gatewayResponse[1].body.data)
            = (IF Len(upstream[1].data) < MAX_CRYPTO_ASSETS
               THEN Len(upstream[1].data) ELSE MAX_CRYPTO_ASSETS)
       /\ \A i \in 1..Len(gatewayResponse[1].body.data) :
             gatewayResponse[1].body.data[i] = upstream[1].data[i]

C22_Witness ==
    /\ pc = "returned"
    /\ upstream # <<>>
    /\ upstream[1].data = JumbledIds(MAX_CRYPTO_ASSETS + 1)
    /\ gatewayResponse[1].status = 200
    /\ gatewayResponse[1].body.data = JumbledIds(MAX_CRYPTO_ASSETS)

\* the GET invocation that returned has failed: it gave up before the
\* outbound request (missing credential), or the request was rejected
\* (network error), or the provider answered with a non-200 status
GatewayFailed ==
    /\ pc = "returned"
    /\ method = "GET"
    /\ \/ upstream = <<>>
       \/ upstream[1].thrown
       \/ ~upstream[1].ok

\* C23: every failed GET of the Gateway returns HTTP 500 with a body whose
\* error is the one fixed user-facing message and which has a details string;
\* an invocation that has returned has a response (nothing is thrown to the
\* caller) and has issued at most one outbound request (no retry).
C23_FailureBodyFixedMessageAndDetails ==
    /\ pc = "returned" => gatewayResponse # <<>>
    /\ outbound <= 1
    /\ GatewayFailed =>
          /\ gatewayResponse[1].status = 500
          /\ gatewayResponse[1].body.error = FETCH_FAILED
          /\ "details" \in DOMAIN gatewayResponse[1].body

\* C24: a GET invocation issues one outbound request when the API key is
\* set and none when it is not; without the key it has returned HTTP 500
\* with no outbound request made.
C24_OneOutboundRequestIffKey ==
    method = "GET" =>
        /\ apiKey # "" => outbound = 1
        /\ apiKey = "" =>
              /\ outbound = 0
              /\ pc = "returned"
              /\ gatewayResponse[1].status = 500
====
